---- MODULE Spec2Model ----
(***************************************************************************)
(* Model of transform_sql_graphql.py: the tuple extractor, the field       *)
(* splitter, the row assembler of parse_sql_file and the driver main.      *)
(* Text is a sequence of one-character strings; positions in the source    *)
(* are 0-based, so the character at source index i is text[i + 1].         *)
(***************************************************************************)
EXTENDS Integers, Sequences, FiniteSets, TLC

VARIABLES
    ext,          \* cursor and locals of extract_tuples_respecting_quotes
    spl,          \* cursor and locals of split_by_comma_robust
    clean_row,    \* parse_sql_file's clean_row for the tuple being split
    calls,        \* how many times main has been called in this interpreter
    argv,         \* main: the input files named on the command line, as their contents
    pc,           \* main: the phase it is in
    fidx,         \* main: how many files the parse loop has handled
    table_data,   \* main: table name -> what its file parsed to
    SKIPPED_ROWS, \* the module-level discard log, table name -> rows
    values_ok,    \* main: country_values_ok, state_values_ok, city_values_ok
    vtab,         \* main: which of the three filter loops is running
    vrow,         \* main: how many rows that loop has handled
    cidx,         \* main: how many CSV files have been saved
    written,      \* the artifacts written so far, in order
    error         \* the exception or exit that ended main, "" if none

scanvars == <<ext, spl, clean_row>>

mainvars == <<calls, argv, pc, fidx, table_data, SKIPPED_ROWS, values_ok, vtab, vrow, cidx,
              written, error>>

vars == <<ext, spl, clean_row, calls, argv, pc, fidx, table_data, SKIPPED_ROWS, values_ok,
          vtab, vrow, cidx, written, error>>

-----------------------------------------------------------------------------
(* Bounds of the explored inputs.                                          *)

MaxBlockLen == 5

MaxTupleLen == 5

\* How many times main is called in one interpreter.
MaxCalls == 2

\* The characters the scanners tell apart, and one ordinary character.
Alphabet == {"(", ")", "'", "\"", "\\", ",", " ", "a"}

RECURSIVE SeqsUpTo(_, _)
SeqsUpTo(S, n) ==
    IF n = 0 THEN {<<>>}
    ELSE LET shorter == SeqsUpTo(S, n - 1)
         IN  shorter \cup {Append(s, x) : s \in {t \in shorter : Len(t) = n - 1}, x \in S}

-----------------------------------------------------------------------------
(* Python string helpers.                                                  *)

\* The characters str.strip() removes among those the model uses.
Whitespace == {" ", "\t", "\n", "\r"}

RECURSIVE LStripChars(_, _)
LStripChars(s, chars) ==
    IF s # <<>> /\ Head(s) \in chars THEN LStripChars(Tail(s), chars) ELSE s

RECURSIVE RStripChars(_, _)
RStripChars(s, chars) ==
    IF s # <<>> /\ s[Len(s)] \in chars
    THEN RStripChars(SubSeq(s, 1, Len(s) - 1), chars)
    ELSE s

\* s.strip(chars): every leading and every trailing character of chars goes.
StripChars(s, chars) == RStripChars(LStripChars(s, chars), chars)

\* s.strip()
Strip(s) == StripChars(s, Whitespace)

-----------------------------------------------------------------------------
(* extract_tuples_respecting_quotes                                        *)

ExtInit(values_block) ==
    [ values_block    |-> values_block,
      results         |-> <<>>,
      current         |-> <<>>,
      paren_depth     |-> 0,
      in_single_quote |-> FALSE,
      in_double_quote |-> FALSE,
      backslash_count |-> 0,
      i               |-> 0,
      pc              |-> "scan" ]

ExtLength(c) == Len(c.values_block)

ExtChar(c) == c.values_block[c.i + 1]

\* The if/elif chain of the outer loop: which branch takes the character.
ExtBranchNoQuoteGuard(c) ==
    LET char == ExtChar(c) IN
    IF char = "\\" THEN "backslash"
    ELSE IF char = "'" /\ ~c.in_double_quote THEN "single_quote"
    ELSE IF char = "\"" /\ ~c.in_single_quote THEN "double_quote"
    ELSE IF char = "(" THEN "open_paren"
    ELSE IF char = ")" THEN "close_paren"
    ELSE "normal"

\* Each quote character takes its branch whatever the other flag says.
ExtBranchQuotesIndependent(c) ==
    LET char == ExtChar(c) IN
    IF char = "\\" THEN "backslash"
    ELSE IF char = "'" THEN "single_quote"
    ELSE IF char = "\"" THEN "double_quote"
    ELSE IF char = "(" /\ ~c.in_single_quote /\ ~c.in_double_quote THEN "open_paren"
    ELSE IF char = ")" /\ ~c.in_single_quote /\ ~c.in_double_quote THEN "close_paren"
    ELSE "normal"

ExtBranch(c) ==
    LET char == ExtChar(c) IN
    IF char = "\\" THEN "backslash"
    ELSE IF char = "'" /\ ~c.in_double_quote THEN "single_quote"
    ELSE IF char = "\"" /\ ~c.in_single_quote THEN "double_quote"
    ELSE IF char = "(" /\ ~c.in_single_quote /\ ~c.in_double_quote THEN "open_paren"
    ELSE IF char = ")" /\ ~c.in_single_quote /\ ~c.in_double_quote THEN "close_paren"
    ELSE "normal"

ExtOnBackslash(c) ==
    [c EXCEPT !.backslash_count = @ + 1,
              !.current = Append(@, ExtChar(c)),
              !.i = @ + 1]

\* The flag flipped whatever the run of backslashes before the quote.
ExtOnSingleQuoteAnyRun(c) ==
    [c EXCEPT !.in_single_quote = ~@,
              !.current = Append(@, ExtChar(c)),
              !.backslash_count = 0,
              !.i = @ + 1]

ExtOnSingleQuote(c) ==
    [c EXCEPT !.in_single_quote = IF c.backslash_count % 2 = 0 THEN ~@ ELSE @,
              !.current = Append(@, ExtChar(c)),
              !.backslash_count = 0,
              !.i = @ + 1]

ExtOnDoubleQuote(c) ==
    [c EXCEPT !.in_double_quote = IF c.backslash_count % 2 = 0 THEN ~@ ELSE @,
              !.current = Append(@, ExtChar(c)),
              !.backslash_count = 0,
              !.i = @ + 1]

ExtOnOpenParen(c) ==
    [c EXCEPT !.paren_depth = @ + 1,
              !.current = Append(@, ExtChar(c)),
              !.backslash_count = 0,
              !.i = @ + 1]

\* tuple_str[1:-1] when tuple_str starts with "(" and ends with ")".
StripOuterParens(tuple_str) ==
    IF tuple_str # <<>> /\ Head(tuple_str) = "(" /\ tuple_str[Len(tuple_str)] = ")"
    THEN SubSeq(tuple_str, 2, Len(tuple_str) - 1)
    ELSE tuple_str

EmitTupleUntrimmed(tuple_str) == StripOuterParens(tuple_str)

\* What results.append receives for the finished buffer.
EmitTuple(tuple_str) == Strip(StripOuterParens(tuple_str))

ExtOnCloseParen(c) ==
    LET depth == c.paren_depth - 1
        buf   == Append(c.current, ExtChar(c))
    IN  IF depth = 0
        THEN [c EXCEPT !.paren_depth = depth,
                       !.backslash_count = 0,
                       !.results = Append(@, EmitTuple(buf)),
                       !.current = <<>>,
                       !.i = @ + 1,
                       !.pc = "skip"]
        ELSE [c EXCEPT !.paren_depth = depth,
                       !.current = buf,
                       !.backslash_count = 0,
                       !.i = @ + 1]

\* The character appended and the position left where it is.
ExtOnNormalNoAdvance(c) ==
    [c EXCEPT !.current = Append(@, ExtChar(c)),
              !.backslash_count = 0]

ExtOnNormal(c) ==
    [c EXCEPT !.current = Append(@, ExtChar(c)),
              !.backslash_count = 0,
              !.i = @ + 1]

\* The characters the inner loop names as separators.
Separators == {",", " ", "\n", "\t", "\r"}

\* One test of the inner loop's condition and, if it holds, one iteration.
ExtSkipBranch(c) ==
    IF ~(c.i < ExtLength(c)) THEN "end"
    ELSE IF ExtChar(c) = "(" THEN "break"
    ELSE IF ExtChar(c) \in Separators THEN "separator"
    ELSE "stray"

ExtOnSkip(c) ==
    IF ExtSkipBranch(c) \in {"end", "break"}
    THEN [c EXCEPT !.pc = "scan"]
    ELSE [c EXCEPT !.i = @ + 1]

\* One step of the function from cursor c.
ExtStep(c) ==
    IF c.pc = "skip" THEN ExtOnSkip(c)
    ELSE IF ~(c.i < ExtLength(c)) THEN [c EXCEPT !.pc = "done"]
    ELSE CASE ExtBranch(c) = "backslash"    -> ExtOnBackslash(c)
           [] ExtBranch(c) = "single_quote" -> ExtOnSingleQuote(c)
           [] ExtBranch(c) = "double_quote" -> ExtOnDoubleQuote(c)
           [] ExtBranch(c) = "open_paren"   -> ExtOnOpenParen(c)
           [] ExtBranch(c) = "close_paren"  -> ExtOnCloseParen(c)
           [] OTHER                         -> ExtOnNormal(c)

RECURSIVE ExtRun(_)
ExtRun(c) == IF c.pc = "done" THEN c.results ELSE ExtRun(ExtStep(c))

\* The function as a whole: the list it returns.
extract_tuples_respecting_quotes(values_block) == ExtRun(ExtInit(values_block))

-----------------------------------------------------------------------------
(* split_by_comma_robust, and the cleaning of its fields in parse_sql_file *)

SplInit(value_string) ==
    [ value_string    |-> value_string,
      result          |-> <<>>,
      current         |-> <<>>,
      in_single_quote |-> FALSE,
      in_double_quote |-> FALSE,
      backslash_count |-> 0,
      pos             |-> 0,
      pc              |-> "scan" ]

SplChar(c) == c.value_string[c.pos + 1]

\* A comma splits whatever the quote flags say.
SplBranchEveryCommaLive(c) ==
    LET char == SplChar(c) IN
    IF char = "\\" THEN "backslash"
    ELSE IF char = "'" /\ ~c.in_double_quote THEN "single_quote"
    ELSE IF char = "\"" /\ ~c.in_single_quote THEN "double_quote"
    ELSE IF char = "," THEN "live_comma"
    ELSE "normal"

\* The if/elif chain of the for loop: which branch takes the character.
SplBranch(c) ==
    LET char == SplChar(c) IN
    IF char = "\\" THEN "backslash"
    ELSE IF char = "'" /\ ~c.in_double_quote THEN "single_quote"
    ELSE IF char = "\"" /\ ~c.in_single_quote THEN "double_quote"
    ELSE IF char = ","
         THEN IF ~c.in_single_quote /\ ~c.in_double_quote
              THEN "live_comma" ELSE "quoted_comma"
    ELSE "normal"

SplOnBackslash(c) ==
    [c EXCEPT !.backslash_count = @ + 1,
              !.current = Append(@, SplChar(c)),
              !.pos = @ + 1]

SplOnSingleQuote(c) ==
    [c EXCEPT !.in_single_quote = IF c.backslash_count % 2 = 0 THEN ~@ ELSE @,
              !.current = Append(@, SplChar(c)),
              !.backslash_count = 0,
              !.pos = @ + 1]

SplOnDoubleQuote(c) ==
    [c EXCEPT !.in_double_quote = IF c.backslash_count % 2 = 0 THEN ~@ ELSE @,
              !.current = Append(@, SplChar(c)),
              !.backslash_count = 0,
              !.pos = @ + 1]

SplOnLiveComma(c) ==
    [c EXCEPT !.result = Append(@, c.current),
              !.current = <<>>,
              !.backslash_count = 0,
              !.pos = @ + 1]

\* The else branches that append the character and reset the run counter.
SplOnAppend(c) ==
    [c EXCEPT !.current = Append(@, SplChar(c)),
              !.backslash_count = 0,
              !.pos = @ + 1]

\* After the loop: "if current:" flushes the last field, and the list is returned.
SplOnEnd(c) ==
    [c EXCEPT !.result = IF c.current # <<>> THEN Append(@, c.current) ELSE @,
              !.pc = "done"]

SplStep(c) ==
    IF ~(c.pos < Len(c.value_string)) THEN SplOnEnd(c)
    ELSE CASE SplBranch(c) = "backslash"    -> SplOnBackslash(c)
           [] SplBranch(c) = "single_quote" -> SplOnSingleQuote(c)
           [] SplBranch(c) = "double_quote" -> SplOnDoubleQuote(c)
           [] SplBranch(c) = "live_comma"   -> SplOnLiveComma(c)
           [] OTHER                         -> SplOnAppend(c)

RECURSIVE SplRun(_)
SplRun(c) == IF c.pc = "done" THEN c.result ELSE SplRun(SplStep(c))

\* The function as a whole: the list it returns.
split_by_comma_robust(value_string) == SplRun(SplInit(value_string))

\* Only the whitespace goes.
CleanFieldKeepQuotes(v) == Strip(v)

\* v.strip().strip("'").strip('"')
CleanField(v) == StripChars(StripChars(Strip(v), {"'"}), {"\""})

\* clean_row of one list of raw fields.
CleanRow(row_values) == [k \in 1..Len(row_values) |-> CleanField(row_values[k])]

\* The example of the specification: 1, 'X, Y', 2
XYTuple == << "1", ",", " ", "'", "X", ",", " ", "Y", "'", ",", " ", "2" >>

\* The characters the splitter tells apart, and one ordinary character.
SplAlphabet == {"'", "\"", "\\", ",", " ", "a"}

SplInputs == SeqsUpTo(SplAlphabet, MaxTupleLen) \cup {XYTuple}

SplScanning == spl.pc = "scan" /\ spl.pos < Len(spl.value_string)

SplBackslash ==
    /\ SplScanning /\ SplBranch(spl) = "backslash"
    /\ spl' = SplStep(spl)
    /\ UNCHANGED <<ext, clean_row, mainvars>>

SplSingleQuote ==
    /\ SplScanning /\ SplBranch(spl) = "single_quote"
    /\ spl' = SplStep(spl)
    /\ UNCHANGED <<ext, clean_row, mainvars>>

SplDoubleQuote ==
    /\ SplScanning /\ SplBranch(spl) = "double_quote"
    /\ spl' = SplStep(spl)
    /\ UNCHANGED <<ext, clean_row, mainvars>>

SplLiveComma ==
    /\ SplScanning /\ SplBranch(spl) = "live_comma"
    /\ spl' = SplStep(spl)
    /\ UNCHANGED <<ext, clean_row, mainvars>>

SplQuotedComma ==
    /\ SplScanning /\ SplBranch(spl) = "quoted_comma"
    /\ spl' = SplStep(spl)
    /\ UNCHANGED <<ext, clean_row, mainvars>>

SplNormal ==
    /\ SplScanning /\ SplBranch(spl) = "normal"
    /\ spl' = SplStep(spl)
    /\ UNCHANGED <<ext, clean_row, mainvars>>

SplReturn ==
    /\ spl.pc = "scan" /\ ~(spl.pos < Len(spl.value_string))
    /\ spl' = SplStep(spl)
    /\ UNCHANGED <<ext, clean_row, mainvars>>

\* parse_sql_file, line 77: the returned fields are cleaned into clean_row.
RowClean ==
    /\ spl.pc = "done"
    /\ clean_row' = CleanRow(spl.result)
    /\ spl' = [spl EXCEPT !.pc = "cleaned"]
    /\ UNCHANGED <<ext, mainvars>>

ExtIdle == [pc |-> "idle"]

\* The variables of main while a scanner is run on its own.
MainIdle ==
    /\ calls = 0
    /\ argv = <<>>
    /\ pc = "idle"
    /\ fidx = 0
    /\ table_data = <<>>
    /\ SKIPPED_ROWS = <<>>
    /\ values_ok = <<>>
    /\ vtab = 0
    /\ vrow = 0
    /\ cidx = 0
    /\ written = <<>>
    /\ error = ""


InitRow ==
    /\ spl \in {SplInit(t) : t \in SplInputs}
    /\ clean_row = <<>>
    /\ ext = ExtIdle
    /\ MainIdle

NextRow ==
    \/ SplBackslash
    \/ SplSingleQuote
    \/ SplDoubleQuote
    \/ SplLiveComma
    \/ SplQuotedComma
    \/ SplNormal
    \/ SplReturn
    \/ RowClean

SpecRow == InitRow /\ [][NextRow]_vars

-----------------------------------------------------------------------------
(* The extractor run on its own.                                           *)

\* The example of the docstrings and of the specification.
CocosBlock ==
    << "(", "1", ",", " ", "'", "C", "o", "c", "o", "s", " ", "(", "K", "e", "e",
       "l", "i", "n", "g", ")", " ", "I", "s", "l", "a", "n", "d", "s", "'", ",",
       " ", "4", "6", ")" >>

ExtInputs == SeqsUpTo(Alphabet, MaxBlockLen) \cup {CocosBlock}

ExtScanning == ext.pc = "scan" /\ ext.i < ExtLength(ext)

ExtBackslash ==
    /\ ExtScanning /\ ExtBranch(ext) = "backslash"
    /\ ext' = ExtStep(ext)
    /\ UNCHANGED <<spl, clean_row, mainvars>>

ExtSingleQuote ==
    /\ ExtScanning /\ ExtBranch(ext) = "single_quote"
    /\ ext' = ExtStep(ext)
    /\ UNCHANGED <<spl, clean_row, mainvars>>

ExtDoubleQuote ==
    /\ ExtScanning /\ ExtBranch(ext) = "double_quote"
    /\ ext' = ExtStep(ext)
    /\ UNCHANGED <<spl, clean_row, mainvars>>

ExtOpenParen ==
    /\ ExtScanning /\ ExtBranch(ext) = "open_paren"
    /\ ext' = ExtStep(ext)
    /\ UNCHANGED <<spl, clean_row, mainvars>>

ExtCloseParen ==
    /\ ExtScanning /\ ExtBranch(ext) = "close_paren"
    /\ ext' = ExtStep(ext)
    /\ UNCHANGED <<spl, clean_row, mainvars>>

ExtNormal ==
    /\ ExtScanning /\ ExtBranch(ext) = "normal"
    /\ ext' = ExtStep(ext)
    /\ UNCHANGED <<spl, clean_row, mainvars>>

ExtSkipSeparator ==
    /\ ext.pc = "skip" /\ ExtSkipBranch(ext) = "separator"
    /\ ext' = ExtStep(ext)
    /\ UNCHANGED <<spl, clean_row, mainvars>>

ExtSkipStray ==
    /\ ext.pc = "skip" /\ ExtSkipBranch(ext) = "stray"
    /\ ext' = ExtStep(ext)
    /\ UNCHANGED <<spl, clean_row, mainvars>>

ExtSkipExit ==
    /\ ext.pc = "skip" /\ ExtSkipBranch(ext) \in {"end", "break"}
    /\ ext' = ExtStep(ext)
    /\ UNCHANGED <<spl, clean_row, mainvars>>

ExtReturn ==
    /\ ext.pc = "scan" /\ ~(ext.i < ExtLength(ext))
    /\ ext' = ExtStep(ext)
    /\ UNCHANGED <<spl, clean_row, mainvars>>

SplIdle == [pc |-> "idle"]

InitExtract ==
    /\ ext \in {ExtInit(b) : b \in ExtInputs}
    /\ spl = SplIdle
    /\ clean_row = <<>>
    /\ MainIdle

NextExtract ==
    \/ ExtBackslash
    \/ ExtSingleQuote
    \/ ExtDoubleQuote
    \/ ExtOpenParen
    \/ ExtCloseParen
    \/ ExtNormal
    \/ ExtSkipSeparator
    \/ ExtSkipStray
    \/ ExtSkipExit
    \/ ExtReturn

SpecExtract == InitExtract /\ [][NextExtract]_vars

\* The function runs on: a call that can take a step takes it.
SpecExtractFair == SpecExtract /\ WF_vars(NextExtract)

\* Either scanner run on its own, on any of its inputs.
InitScanners == InitExtract \/ InitRow

NextScanners ==
    \/ NextExtract
    \/ NextRow

SpecScanners == InitScanners /\ [][NextScanners]_vars

-----------------------------------------------------------------------------
(* parse_sql_file.  A file is what the two regular expressions can see of  *)
(* it: the table named by its first CREATE TABLE (NoCreate when it has     *)
(* none) and its INSERT statements in order, each with the table it names, *)
(* its column list and the text that follows VALUES.                       *)

NoCreate == ""

Tables == {"cities", "countries", "states"}

\* str.lower() on the table names the inputs use.
Lower(name) ==
    CASE name = "Countries" -> "countries"
      [] name = "STATES"    -> "states"
      [] OTHER              -> name

RECURSIVE FirstIndex(_, _, _)
\* The first position >= k of text holding ch, 0 when there is none.
FirstIndex(text, ch, k) ==
    IF k > Len(text) THEN 0
    ELSE IF text[k] = ch THEN k
    ELSE FirstIndex(text, ch, k + 1)

\* INSERT INTO `?table_name`? ( ... ) VALUES ... ; under re.IGNORECASE.
InsertMatches(ins, table_name) ==
    /\ Lower(ins.table) = Lower(table_name)
    /\ FirstIndex(ins.tail, ";", 1) # 0

\* match.group(2).strip(): "(.*?);" ends at the first semicolon.
ValuesBlock(tail) == Strip(SubSeq(tail, 1, FirstIndex(tail, ";", 1) - 1))

\* The rows one values block adds to all_values (lines 71-78).
BlockRows(values_block) ==
    LET tuple_strings == extract_tuples_respecting_quotes(values_block)
    IN  [n \in 1..Len(tuple_strings) |-> CleanRow(split_by_comma_robust(tuple_strings[n]))]

RECURSIVE AllValues(_)
AllValues(inserts) ==
    IF inserts = <<>> THEN <<>>
    ELSE BlockRows(ValuesBlock(Head(inserts).tail)) \o AllValues(Tail(inserts))

\* What parse_sql_file returns, or that it raises ValueError.
parse_sql_file(f) ==
    IF f.create = NoCreate
    THEN [raises |-> TRUE, table_name |-> "", columns |-> <<>>, values |-> <<>>]
    ELSE LET matching == SelectSeq(f.inserts, LAMBDA ins : InsertMatches(ins, f.create))
         IN  [ raises     |-> FALSE,
               table_name |-> f.create,
               columns    |-> IF matching = <<>> THEN <<>> ELSE Head(matching).columns,
               values     |-> AllValues(matching) ]

-----------------------------------------------------------------------------
(* The serializers.                                                        *)

\* value.replace('\\', '\\\\').replace('"', '\\"')
escape_gql_string(value) ==
    LET Esc(ch) == IF ch = "\\" THEN <<"\\", "\\">>
                   ELSE IF ch = "\"" THEN <<"\\", "\"">>
                   ELSE <<ch>>
        F[k \in 0..Len(value)] == IF k = 0 THEN <<>> ELSE F[k - 1] \o Esc(value[k])
    IN  F[Len(value)]

\* How many leading fields of a row the bulk generator of a table reads.
BulkArity(t) == IF t = "countries" THEN 2 ELSE 3

\* The input object one row becomes: the holes of the f-string, in order.
BulkItem(t, row) ==
    IF t = "countries"
    THEN <<Strip(row[1]), escape_gql_string(Strip(row[2]))>>
    ELSE <<Strip(row[1]), escape_gql_string(Strip(row[2])), Strip(row[3])>>

\* row[0], row[1] (, row[2]) raise IndexError on a shorter row.
BulkRaises(t, rows) == \E n \in 1..Len(rows) : Len(rows[n]) < BulkArity(t)

\* generate_bulk_countries / _states / _cities: one item per row, in order.
generate_bulk(t, rows) == [n \in 1..Len(rows) |-> BulkItem(t, rows[n])]

\* csv.writer, QUOTE_MINIMAL: a field holding the delimiter, the quote
\* character or a line break is wrapped in double quotes, its quotes doubled.
CsvField(field) ==
    LET Dbl(ch) == IF ch = "\"" THEN <<"\"", "\"">> ELSE <<ch>>
        F[k \in 0..Len(field)] == IF k = 0 THEN <<>> ELSE F[k - 1] \o Dbl(field[k])
    IN  IF \E k \in 1..Len(field) : field[k] \in {",", "\"", "\n", "\r"}
        THEN <<"\"">> \o F[Len(field)] \o <<"\"">>
        ELSE field

\* One written line: the encoded fields joined by commas.
CsvLine(row) ==
    LET F[k \in 0..Len(row)] ==
            IF k = 0 THEN <<>>
            ELSE IF k = 1 THEN CsvField(row[1])
            ELSE F[k - 1] \o <<",">> \o CsvField(row[k])
    IN  F[Len(row)]

\* save_data_to_csv: the header when there are columns, then writerows(rows).
save_data_to_csv(filename, columns, rows) ==
    [ name   |-> filename,
      header |-> columns,
      rows   |-> rows,
      lines  |-> [n \in 1..Len(rows) |-> CsvLine(rows[n])] ]

-----------------------------------------------------------------------------
(* main                                                                    *)

\* files = sys.argv[1:4]
NumFiles == 3

\* Schema written before anything is parsed.
MainOrderSchemaFirst == <<"schema", "parse", "check", "validate", "mutations", "csv">>

\* The order of main's phases.
MainOrder == <<"parse", "check", "validate", "schema", "mutations", "csv">>

PhaseAfter(p) ==
    LET k == CHOOSE n \in 1..Len(MainOrder) : MainOrder[n] = p
    IN  IF k = Len(MainOrder) THEN "done" ELSE MainOrder[k + 1]

\* The three filter loops and the three save_data_to_csv calls, in order.
TableOrder == <<"countries", "states", "cities">>

RowTooShortInclusive(t, row) == Len(row) <= (IF t = "countries" THEN 2 ELSE 3)

\* len(row) < 2 for countries, len(row) < 3 for states and cities.
RowTooShort(t, row) == Len(row) < (IF t = "countries" THEN 2 ELSE 3)

NoData == [parsed |-> FALSE, columns |-> <<>>, values |-> <<>>]

\* len(sys.argv) < 4: usage message and sys.exit(1).
MainUsage ==
    /\ pc = "start" /\ Len(argv) < NumFiles
    /\ pc' = "exit"
    /\ error' = "usage"
    /\ UNCHANGED <<calls, argv, fidx, table_data, SKIPPED_ROWS, values_ok, vtab, vrow, cidx,
                   written, scanvars>>

MainStart ==
    /\ pc = "start" /\ ~(Len(argv) < NumFiles)
    /\ pc' = MainOrder[1]
    /\ UNCHANGED <<calls, argv, fidx, table_data, SKIPPED_ROWS, values_ok, vtab, vrow, cidx,
                   written, error, scanvars>>

\* The parse loop left after its first file.
ParsePhaseDoneAtFirst == PhaseAfter("parse")

\* Where the parse loop goes after a file: to the next file, or on.
ParsePhaseDone == IF fidx + 1 = NumFiles THEN PhaseAfter("parse") ELSE "parse"

\* The table the usage line gives the k-th argument.
TableOfFileByPosition(k) == <<"cities", "countries", "states">>[k]

\* lt: the table of the k-th file, the lowered name of its CREATE TABLE.
TableOfFile(k) == Lower(parse_sql_file(argv[k]).table_name)

\* One iteration of the parse loop whose file names one of the three tables.
MainParseFile ==
    /\ pc = "parse" /\ fidx < NumFiles
    /\ LET got == parse_sql_file(argv[fidx + 1])
           lt  == TableOfFile(fidx + 1)
       IN  /\ ~got.raises
           /\ lt \in Tables
           /\ table_data' = [table_data EXCEPT ![lt] =
                  [parsed |-> TRUE, columns |-> got.columns, values |-> got.values]]
    /\ fidx' = fidx + 1
    /\ pc' = ParsePhaseDone
    /\ UNCHANGED <<calls, argv, SKIPPED_ROWS, values_ok, vtab, vrow, cidx, written, error,
                   scanvars>>

\* One iteration whose file names another table: a warning, nothing stored.
MainParseSkip ==
    /\ pc = "parse" /\ fidx < NumFiles
    /\ LET got == parse_sql_file(argv[fidx + 1])
       IN  ~got.raises /\ TableOfFile(fidx + 1) \notin Tables
    /\ fidx' = fidx + 1
    /\ pc' = ParsePhaseDone
    /\ UNCHANGED <<calls, argv, table_data, SKIPPED_ROWS, values_ok, vtab, vrow, cidx, written,
                   error, scanvars>>

\* parse_sql_file raises ValueError: the run ends there.
MainParseFail ==
    /\ pc = "parse" /\ fidx < NumFiles
    /\ parse_sql_file(argv[fidx + 1]).raises
    /\ pc' = "error"
    /\ error' = "no CREATE TABLE"
    /\ UNCHANGED <<calls, argv, fidx, table_data, SKIPPED_ROWS, values_ok, vtab, vrow, cidx,
                   written, scanvars>>

Missing == {t \in Tables : ~table_data[t].parsed}

\* "if missing: raise ValueError"
MainMissingTable ==
    /\ pc = "check" /\ Missing # {}
    /\ pc' = "error"
    /\ error' = "missing table"
    /\ UNCHANGED <<calls, argv, fidx, table_data, SKIPPED_ROWS, values_ok, vtab, vrow, cidx,
                   written, scanvars>>

\* Nothing is missing: the three (columns, values) pairs are unpacked.
MainUnpack ==
    /\ pc = "check" /\ Missing = {}
    /\ pc' = PhaseAfter("check")
    /\ UNCHANGED <<calls, argv, fidx, table_data, SKIPPED_ROWS, values_ok, vtab, vrow, cidx,
                   written, error, scanvars>>

VTable == TableOrder[vtab]

VRows == table_data[VTable].values

\* One iteration of a filter loop on a row that is too short.
MainValidateSkip ==
    /\ pc = "validate" /\ vtab <= Len(TableOrder) /\ vrow < Len(VRows)
    /\ RowTooShort(VTable, VRows[vrow + 1])
    /\ SKIPPED_ROWS' = [SKIPPED_ROWS EXCEPT ![VTable] = Append(@, VRows[vrow + 1])]
    /\ vrow' = vrow + 1
    /\ UNCHANGED <<calls, argv, pc, fidx, table_data, values_ok, vtab, cidx, written, error,
                   scanvars>>

\* One iteration of a filter loop on a row that is long enough.
MainValidateKeep ==
    /\ pc = "validate" /\ vtab <= Len(TableOrder) /\ vrow < Len(VRows)
    /\ ~RowTooShort(VTable, VRows[vrow + 1])
    /\ values_ok' = [values_ok EXCEPT ![VTable] = Append(@, VRows[vrow + 1])]
    /\ vrow' = vrow + 1
    /\ UNCHANGED <<calls, argv, pc, fidx, table_data, SKIPPED_ROWS, vtab, cidx, written, error,
                   scanvars>>

\* A filter loop ends; after the third, the counts are reported (lines 292-314).
MainValidateNext ==
    /\ pc = "validate" /\ vtab <= Len(TableOrder) /\ ~(vrow < Len(VRows))
    /\ vtab' = vtab + 1
    /\ vrow' = 0
    /\ pc' = IF vtab = Len(TableOrder) THEN PhaseAfter("validate") ELSE pc
    /\ UNCHANGED <<calls, argv, fidx, table_data, SKIPPED_ROWS, values_ok, cidx, written, error,
                   scanvars>>

MainWriteSchema ==
    /\ pc = "schema"
    /\ written' = Append(written, [name |-> "schema.graphql"])
    /\ pc' = PhaseAfter("schema")
    /\ UNCHANGED <<calls, argv, fidx, table_data, SKIPPED_ROWS, values_ok, vtab, vrow, cidx,
                   error, scanvars>>

\* generate_appsync_mutations on the kept rows, then the file is written.
MainWriteMutations ==
    /\ pc = "mutations"
    /\ IF \E t \in Tables : BulkRaises(t, values_ok[t])
       THEN /\ pc' = "error"
            /\ error' = "IndexError"
            /\ UNCHANGED written
       ELSE /\ written' = Append(written,
                   [ name  |-> "appsync_mutations.graphql",
                     rows  |-> values_ok,
                     items |-> [t \in Tables |-> generate_bulk(t, values_ok[t])] ])
            /\ pc' = PhaseAfter("mutations")
            /\ UNCHANGED error
    /\ UNCHANGED <<calls, argv, fidx, table_data, SKIPPED_ROWS, values_ok, vtab, vrow, cidx,
                   scanvars>>

CsvName(t) ==
    CASE t = "countries" -> "processed_countries.csv"
      [] t = "states"    -> "processed_states.csv"
      [] t = "cities"    -> "processed_cities.csv"

\* One of the three save_data_to_csv calls.
MainWriteCsv ==
    /\ pc = "csv" /\ cidx < Len(TableOrder)
    /\ LET t == TableOrder[cidx + 1]
       IN  written' = Append(written,
               save_data_to_csv(CsvName(t), table_data[t].columns, values_ok[t]))
    /\ cidx' = cidx + 1
    /\ pc' = IF cidx + 1 = Len(TableOrder) THEN PhaseAfter("csv") ELSE pc
    /\ UNCHANGED <<calls, argv, fidx, table_data, SKIPPED_ROWS, values_ok, vtab, vrow, error,
                   scanvars>>

-----------------------------------------------------------------------------
(* The input files main is run on.                                         *)

Afghanistan == << "A", "f", "g", "h", "a", "n", "i", "s", "t", "a", "n" >>

Albania == << "A", "l", "b", "a", "n", "i", "a" >>

\* O\'Brien, as a dump writes the name inside a single-quoted literal.
OBrienEscaped == << "O", "\\", "'", "B", "r", "i", "e", "n" >>

Quoted(text) == <<"'">> \o text \o <<"'">>

RECURSIVE Join(_, _)
Join(parts, sep) ==
    IF parts = <<>> THEN <<>>
    ELSE IF Len(parts) = 1 THEN parts[1]
    ELSE parts[1] \o sep \o Join(Tail(parts), sep)

\* A tuple of SQL literals, each with pad around it.
RenderTuple(literals, pad) ==
    <<"(">> \o Join([k \in 1..Len(literals) |-> pad \o literals[k] \o pad], <<",">>) \o <<")">>

\* The text after VALUES of one statement: its tuples, then the semicolon.
RenderValues(rows, pad) ==
    Join([n \in 1..Len(rows) |-> RenderTuple(rows[n], pad)], <<",">> \o pad) \o <<";">>

ColumnsOf(t) ==
    CASE t = "countries" -> <<"id", "name">>
      [] t = "states"    -> <<"id", "name", "country_id">>
      [] t = "cities"    -> <<"id", "name", "state_id">>
      [] OTHER           -> <<"id", "name">>

OneInsertFile(create, rows, pad) ==
    [ create  |-> create,
      inserts |-> << [table |-> Lower(create), columns |-> ColumnsOf(Lower(create)),
                      tail |-> RenderValues(rows, pad)] >> ]

\* Inserts of plain numbers and single-quoted strings without special
\* characters: the literals of each row, and the padding put around them.
PlainInputs ==
    { [rows |-> << <<<<"1">>, Quoted(Afghanistan)>>, <<<<"2">>, Quoted(Albania)>> >>,
       pad  |-> <<>>],
      [rows |-> << <<<<"1">>, Quoted(Albania), <<"2">>>>, <<<<"2">>, Quoted(<<>>), <<"1">>>> >>,
       pad  |-> <<" ">>],
      [rows |-> << <<<<"3">>, Quoted(Albania), <<"1">>>>, <<<<"7">>>>,
                   <<<<"4">>, Quoted(Afghanistan)>>,
                   <<<<"5">>, Quoted(<<"a", " ", "b">>), <<"1">>, <<"9">>>> >>,
       pad  |-> <<" ">>] }

PlainFiles == {OneInsertFile(t, p.rows, p.pad) : t \in Tables, p \in PlainInputs}

\* Files outside that shape: no CREATE TABLE, a table that is not wanted, a
\* table name in another case, two INSERT statements, none at all, an escaped
\* quote inside a literal, a semicolon inside a literal.
OtherFiles ==
    { [create |-> NoCreate,
       inserts |-> << [table |-> "countries", columns |-> ColumnsOf("countries"),
                       tail |-> RenderValues(<< <<<<"1">>, Quoted(Albania)>> >>, <<>>)] >>],
      OneInsertFile("regions", << <<<<"1">>, Quoted(Albania)>> >>, <<>>),
      OneInsertFile("Countries", << <<<<"1">>, Quoted(Albania)>>, <<<<"2">>>> >>, <<>>),
      [create |-> "STATES",
       inserts |-> << [table |-> "states", columns |-> ColumnsOf("states"),
                       tail |-> RenderValues(<< <<<<"1">>, Quoted(Albania), <<"1">>>> >>, <<>>)],
                      [table |-> "cities", columns |-> ColumnsOf("cities"),
                       tail |-> RenderValues(<< <<<<"8">>, Quoted(Albania), <<"1">>>> >>, <<>>)],
                      [table |-> "states", columns |-> <<"name", "id">>,
                       tail |-> RenderValues(<< <<Quoted(Afghanistan)>>,
                                                <<<<"2">>, Quoted(Albania), <<"1">>>> >>, <<" ">>)] >>],
      [create |-> "cities", inserts |-> <<>>],
      OneInsertFile("cities", << <<<<"1">>, Quoted(OBrienEscaped), <<"2">>>> >>, <<>>),
      OneInsertFile("cities", << <<<<"1">>, Quoted(<<"a", ";", "b">>), <<"2">>>>,
                                 <<<<"2">>, Quoted(Albania), <<"1">>>> >>, <<>>) }

InputFiles == PlainFiles \cup OtherFiles

InitMain ==
    /\ calls = 1
    /\ argv \in [1..NumFiles -> InputFiles] \cup [1..(NumFiles - 1) -> OtherFiles]
    /\ pc = "start"
    /\ fidx = 0
    /\ table_data = [t \in Tables |-> NoData]
    /\ SKIPPED_ROWS = [t \in Tables |-> <<>>]
    /\ values_ok = [t \in Tables |-> <<>>]
    /\ vtab = 1
    /\ vrow = 0
    /\ cidx = 0
    /\ written = <<>>
    /\ error = ""
    /\ ext = ExtIdle
    /\ spl = SplIdle
    /\ clean_row = <<>>

NextMain ==
    \/ MainUsage
    \/ MainStart
    \/ MainParseFile
    \/ MainParseSkip
    \/ MainParseFail
    \/ MainMissingTable
    \/ MainUnpack
    \/ MainValidateSkip
    \/ MainValidateKeep
    \/ MainValidateNext
    \/ MainWriteSchema
    \/ MainWriteMutations
    \/ MainWriteCsv

SpecMain == InitMain /\ [][NextMain]_vars

\* main called again in the same interpreter, on the same arguments: its
\* locals start afresh, the module-level SKIPPED_ROWS is what the call before
\* left, and the output files are opened anew.
MainAgain ==
    /\ pc = "done" /\ calls < MaxCalls
    /\ calls' = calls + 1
    /\ pc' = "start"
    /\ fidx' = 0
    /\ table_data' = [t \in Tables |-> NoData]
    /\ values_ok' = [t \in Tables |-> <<>>]
    /\ vtab' = 1
    /\ vrow' = 0
    /\ cidx' = 0
    /\ written' = <<>>
    /\ UNCHANGED <<argv, SKIPPED_ROWS, error, scanvars>>

NextMainTwice ==
    \/ NextMain
    \/ MainAgain

SpecMainTwice == InitMain /\ [][NextMainTwice]_vars

-----------------------------------------------------------------------------
(* Reference reading of a values block, used to state the claims: the      *)
(* quote state of the escape-aware scanner run over the whole block, the   *)
(* nesting depth by counting parentheses, and the top-level groups.        *)

RECURSIVE RefScan(_, _)
\* Quote flags and backslash run after the first k characters of text.
RefScan(text, k) ==
    IF k = 0 THEN [sq |-> FALSE, dq |-> FALSE, bs |-> 0]
    ELSE LET p  == RefScan(text, k - 1)
             ch == text[k]
         IN  IF ch = "\\" THEN [p EXCEPT !.bs = @ + 1]
             ELSE IF ch = "'" /\ ~p.dq /\ p.bs % 2 = 0 THEN [sq |-> ~p.sq, dq |-> p.dq, bs |-> 0]
             ELSE IF ch = "\"" /\ ~p.sq /\ p.bs % 2 = 0 THEN [sq |-> p.sq, dq |-> ~p.dq, bs |-> 0]
             ELSE [p EXCEPT !.bs = 0]

RefQuotedAt(text, k) == RefScan(text, k - 1).sq \/ RefScan(text, k - 1).dq

Parens == {"(", ")"}

ParensUnquoted(text) ==
    \A k \in 1..Len(text) : text[k] \in Parens => ~RefQuotedAt(text, k)

RefDepth(text, k) ==
    Cardinality({j \in 1..k : text[j] = "("}) - Cardinality({j \in 1..k : text[j] = ")"})

ParensBalanced(text) ==
    /\ \A k \in 1..Len(text) : RefDepth(text, k) >= 0
    /\ RefDepth(text, Len(text)) = 0

\* Positions of the ")" that close a top-level group, and of the "(" opening it.
GroupEnds(text) == {k \in 1..Len(text) : text[k] = ")" /\ RefDepth(text, k) = 0}

GroupStart(text, k) ==
    CHOOSE j \in 1..k :
        /\ text[j] = "(" /\ RefDepth(text, j) = 1
        /\ \A m \in (j + 1)..k : ~(text[m] = "(" /\ RefDepth(text, m) = 1)

RECURSIVE Ascending(_)
Ascending(S) ==
    IF S = {} THEN <<>>
    ELSE LET m == CHOOSE x \in S : \A y \in S : x <= y
         IN  <<m>> \o Ascending(S \ {m})

\* The interior of every top-level group, in source order.
GroupInteriors(text) ==
    LET ends == Ascending(GroupEnds(text))
    IN  [n \in 1..Len(ends) |-> SubSeq(text, GroupStart(text, ends[n]) + 1, ends[n] - 1)]

\* The text the first buffer holds: everything up to the first group's ")".
FirstBuffer(text) == SubSeq(text, 1, Ascending(GroupEnds(text))[1])

ExtDone == ext.pc = "done"

-----------------------------------------------------------------------------
(* C1: a parenthesis met while a quote flag is set leaves paren_depth and  *)
(* the emitted tuples unchanged, and the block                             *)
(* (1, 'Cocos (Keeling) Islands', 46) comes back as exactly one tuple, the *)
(* text between its outer parentheses.                                     *)
C1_QuotedParenInert ==
    /\ [][ ( /\ ExtScanning
             /\ ExtChar(ext) \in Parens
             /\ (ext.in_single_quote \/ ext.in_double_quote) )
           => ( /\ ext'.paren_depth = ext.paren_depth
                /\ ext'.results = ext.results
                /\ ext'.pc = "scan" ) ]_vars
    /\ [](ExtDone /\ ext.values_block = CocosBlock
            => ext.results = <<SubSeq(CocosBlock, 2, Len(CocosBlock) - 1)>>)

C1_Witness ==
    /\ ExtDone
    /\ ext.values_block = CocosBlock
    /\ Len(ext.results) = 1

(* C2 as stated: on a block whose parentheses are balanced and unquoted    *)
(* the result is the sequence of the interiors of the top-level groups.    *)
C2_ExactInteriors ==
    (ExtDone /\ ParensBalanced(ext.values_block) /\ ParensUnquoted(ext.values_block))
        => ext.results = GroupInteriors(ext.values_block)

(* C2 amended: on such a block there is one result per top-level group, in *)
(* source order, each the whitespace-trimmed interior of its group; only   *)
(* when text precedes the first "(" is the first result instead the whole  *)
(* first buffer (that text and the group with its parentheses), trimmed.   *)
C2_TrimmedInteriors ==
    (ExtDone /\ ParensBalanced(ext.values_block) /\ ParensUnquoted(ext.values_block))
        => LET block  == ext.values_block
               groups == GroupInteriors(block)
           IN  /\ Len(ext.results) = Len(groups)
               /\ \A n \in 1..Len(groups) :
                    ext.results[n] =
                        IF n = 1 /\ Head(block) # "("
                        THEN Strip(FirstBuffer(block))
                        ELSE Strip(groups[n])

C2_Witness ==
    /\ ExtDone
    /\ ParensBalanced(ext.values_block) /\ ParensUnquoted(ext.values_block)
    /\ Len(ext.results) = 2
    /\ ext.results[1] # GroupInteriors(ext.values_block)[1]

-----------------------------------------------------------------------------
(* Claims about the field splitter and the cleaning of its fields.         *)

\* Commas of the first k characters of text met outside every quoted literal.
LiveCommas(text, k) == {j \in 1..k : text[j] = "," /\ ~RefQuotedAt(text, j)}

\* The text after the last live comma (the whole text when there is none).
LastFieldText(text) ==
    LET live == LiveCommas(text, Len(text))
        from == IF live = {} THEN 1 ELSE 1 + CHOOSE j \in live : \A m \in live : m <= j
    IN  SubSeq(text, from, Len(text))

SplDone == spl.pc \in {"done", "cleaned"}

(* C3 as stated: the number of fields returned is the number of live       *)
(* commas plus one.                                                        *)
C3_LiveCommasPlusOne ==
    SplDone => Len(spl.result) = Cardinality(LiveCommas(spl.value_string, Len(spl.value_string))) + 1

(* C3 amended: while scanning, the fields flushed so far are as many as    *)
(* the live commas consumed (a quoted comma adds none); the list returned  *)
(* has one more field exactly when the text after the last live comma is   *)
(* not empty, and otherwise as many fields as live commas.                 *)
C3_LiveCommasPlusNonEmptyTail ==
    LET text == spl.value_string IN
    /\ spl.pc = "scan" => Len(spl.result) = Cardinality(LiveCommas(text, spl.pos))
    /\ SplDone =>
         Len(spl.result) = Cardinality(LiveCommas(text, Len(text)))
                             + (IF LastFieldText(text) # <<>> THEN 1 ELSE 0)

C3_Witness ==
    /\ SplDone
    /\ \E j \in 1..Len(spl.value_string) :
          spl.value_string[j] = "," /\ RefQuotedAt(spl.value_string, j)
    /\ LiveCommas(spl.value_string, Len(spl.value_string)) # {}
    /\ LastFieldText(spl.value_string) = <<>>
    /\ Len(spl.result) = 1

(* C4: the splitter returns for 1, 'X, Y', 2 exactly the fields            *)
(* "1", "'X, Y'", "2".                                                     *)
C4_XYFields ==
    (SplDone /\ spl.value_string = XYTuple)
        => spl.result = << <<"1">>, <<"'", "X", ",", " ", "Y", "'">>, <<"2">> >>

\* The raw field trimmed, then without one leading and one trailing quote
\* character, whichever of the two it is.
CleanFieldOneLayer(v) ==
    LET t == Strip(v)
        a == IF t # <<>> /\ Head(t) \in {"'", "\""} THEN Tail(t) ELSE t
    IN  IF a # <<>> /\ a[Len(a)] \in {"'", "\""} THEN SubSeq(a, 1, Len(a) - 1) ELSE a

(* C8: every cleaned field is its raw field with surrounding whitespace    *)
(* and exactly one leading and one trailing quote character removed, every *)
(* other character kept.                                                   *)
C8_OneQuoteLayer ==
    spl.pc = "cleaned"
        => /\ Len(clean_row) = Len(spl.result)
           /\ \A k \in 1..Len(clean_row) : clean_row[k] = CleanFieldOneLayer(spl.result[k])

-----------------------------------------------------------------------------
(* Claims about main.                                                      *)

\* files = sys.argv[1:4], when there are that many.
Files == IF Len(argv) < NumFiles THEN <<>> ELSE SubSeq(argv, 1, NumFiles)

AllDeclared == Files # <<>> /\ \A k \in 1..Len(Files) : Files[k].create # NoCreate

AllTablesFound ==
    \A t \in Tables : \E k \in 1..Len(Files) : Lower(Files[k].create) = t

(* C5: an artifact is written only when every input file has a CREATE      *)
(* TABLE statement and the three tables cities, countries and states were  *)
(* all found; a run ended by a missing declaration or a missing table has  *)
(* written nothing.                                                        *)
C5_NoOutputUnlessAllTables ==
    /\ written # <<>> => (AllDeclared /\ AllTablesFound)
    /\ error \in {"no CREATE TABLE", "missing table"} => written = <<>>

C5_Witness ==
    /\ error = "missing table"
    /\ AllDeclared
    /\ written = <<>>

\* The minimum field count of a table's rows.
MinColumns(t) == IF t = "countries" THEN 2 ELSE 3

LongEnough(t, rows) == SelectSeq(rows, LAMBDA row : Len(row) >= MinColumns(t))

TooShort(t, rows) == SelectSeq(rows, LAMBDA row : Len(row) < MinColumns(t))

\* The rows of table t the filter loops have handled so far.
Validated(t) ==
    LET k == CHOOSE n \in 1..Len(TableOrder) : TableOrder[n] = t
    IN  IF k < vtab THEN table_data[t].values
        ELSE IF k = vtab THEN SubSeq(table_data[t].values, 1, vrow)
        ELSE <<>>

(* C6: of the parsed rows of a table handled so far, those with at least   *)
(* the table's minimum of fields (2 for countries, 3 for states and        *)
(* cities) are the kept rows, in order, and the others are the table's     *)
(* entry of the discard log, in order; every row handed to a serializer    *)
(* has at least the minimum of fields.                                     *)
C6_ValidationPartitions ==
    /\ \A t \in Tables :
          /\ values_ok[t] = LongEnough(t, Validated(t))
          /\ SKIPPED_ROWS[t] = TooShort(t, Validated(t))
    /\ \A k \in 1..Len(written) :
          /\ written[k].name = "appsync_mutations.graphql" =>
                \A t \in Tables : \A n \in 1..Len(written[k].rows[t]) :
                    Len(written[k].rows[t][n]) >= MinColumns(t)
          /\ \A t \in Tables : written[k].name = CsvName(t) =>
                \A n \in 1..Len(written[k].rows) :
                    Len(written[k].rows[n]) >= MinColumns(t)

C6_Witness ==
    /\ pc = "done"
    /\ values_ok["states"] # <<>>
    /\ \E n \in 1..Len(SKIPPED_ROWS["states"]) : Len(SKIPPED_ROWS["states"][n]) = 2

\* The arity of the template of a table's input objects.
TemplateArity(t) == IF t = "countries" THEN 2 ELSE 3

(* C7: the mutation serializer emits an input object only for rows whose   *)
(* arity is the one of the table's template (2 for countries, 3 for states *)
(* and cities); a row of another arity is rejected.                        *)
C7_ArityMismatchRejected ==
    \A k \in 1..Len(written) :
        written[k].name = "appsync_mutations.graphql" =>
            \A t \in Tables : \A n \in 1..Len(written[k].items[t]) :
                Len(written[k].rows[t][n]) = TemplateArity(t)

\* What a literal of PlainInputs denotes: the number, or the quoted text.
Denoted(literal) ==
    IF Head(literal) = "'" THEN SubSeq(literal, 2, Len(literal) - 1) ELSE literal

DenotedRows(rows) ==
    [n \in 1..Len(rows) |-> [m \in 1..Len(rows[n]) |-> Denoted(rows[n][m])]]

\* File k is the one table_data keeps for its table: no later file names it.
LastFor(k) ==
    \A j \in (k + 1)..Len(Files) : Lower(Files[j].create) # Lower(Files[k].create)

(* C9: a file whose INSERT holds only plain numbers and single-quoted      *)
(* strings parses to one row per tuple, in source order, each the denoted  *)
(* values of its literals (whitespace and quotes gone); validation keeps, *)
(* in order, every one of them with at least the table's minimum of        *)
(* fields.  INSERT INTO countries (id,name) VALUES                         *)
(* (1,'Afghanistan'),(2,'Albania'); gives the rows 1, Afghanistan and      *)
(* 2, Albania, both kept.                                                  *)
C9_PlainInsertRows ==
    \A k \in 1..Len(Files) : \A t \in Tables : \A p \in PlainInputs :
        (Files[k] = OneInsertFile(t, p.rows, p.pad) /\ LastFor(k)) =>
            /\ fidx >= k => table_data[t].values = DenotedRows(p.rows)
            /\ pc \in {"schema", "mutations", "csv", "done"} =>
                  values_ok[t] = LongEnough(t, DenotedRows(p.rows))

C9_Witness ==
    /\ pc = "done"
    /\ \E k \in 1..Len(Files) :
          /\ Files[k].create = "countries"
          /\ Len(Files[k].inserts) = 1
          /\ Files[k].inserts[1].tail =
                << "(", "1", ",", "'" >> \o Afghanistan \o << "'", ")", ",",
                   "(", "2", ",", "'" >> \o Albania \o << "'", ")", ";" >>
    /\ values_ok["countries"] = << <<<<"1">>, Afghanistan>>, <<<<"2">>, Albania>> >>
    /\ SKIPPED_ROWS["countries"] = <<>>

RECURSIVE BackslashRun(_)
\* The number of backslashes text starts with.
BackslashRun(text) ==
    IF text # <<>> /\ Head(text) = "\\" THEN 1 + BackslashRun(Tail(text)) ELSE 0

RECURSIVE CleanEscapes(_)
\* An escaped quote (backslashes, then a quote) becomes one space, and two
\* backslashes become one.
CleanEscapes(text) ==
    IF text = <<>> THEN <<>>
    ELSE LET run == BackslashRun(text) IN
         IF run > 0 /\ Len(text) > run /\ text[run + 1] \in {"'", "\""}
         THEN <<" ">> \o CleanEscapes(SubSeq(text, run + 2, Len(text)))
         ELSE IF run >= 2 THEN <<"\\">> \o CleanEscapes(SubSeq(text, 3, Len(text)))
         ELSE <<Head(text)>> \o CleanEscapes(Tail(text))

\* The cosmetic cleanup of a field as the specification describes it.
CosmeticCleanup(field) ==
    LET a == IF Len(field) >= 2 /\ field[1] = "\\" /\ field[2] \in {"'", "\""}
             THEN SubSeq(field, 3, Len(field)) ELSE field
        b == IF a # <<>> /\ a[Len(a)] = "\\" /\ BackslashRun(a) # Len(a)
             THEN SubSeq(a, 1, Len(a) - 1) ELSE a
    IN  CleanEscapes(b)

(* C10: every data row of a processed_<table>.csv is written from fields   *)
(* that went through the cosmetic cleanup, so that a field holding a       *)
(* backslash-escaped quote is written with a space in its place.           *)
C10_CsvFieldsCleaned ==
    \A k \in 1..Len(written) : \A t \in Tables :
        written[k].name = CsvName(t) =>
            written[k].lines =
                [n \in 1..Len(values_ok[t]) |->
                    CsvLine([m \in 1..Len(values_ok[t][n]) |->
                                CosmeticCleanup(values_ok[t][n][m])])]

-----------------------------------------------------------------------------
(* Claims about the order of the arguments and about unwanted tables.      *)

\* The file of Files that declares table t, when exactly one does.
FileFor(t) == Files[CHOOSE k \in 1..Len(Files) : Lower(Files[k].create) = t]

\* What a successful run writes, from the kept rows and the columns.
ArtifactsOf(columns, kept) ==
    << [name |-> "schema.graphql"],
       [name  |-> "appsync_mutations.graphql",
        rows  |-> kept,
        items |-> [t \in Tables |-> generate_bulk(t, kept[t])]],
       save_data_to_csv("processed_countries.csv", columns["countries"], kept["countries"]),
       save_data_to_csv("processed_states.csv", columns["states"], kept["states"]),
       save_data_to_csv("processed_cities.csv", columns["cities"], kept["cities"]) >>

(* C11: how a run on three files ends depends on the files and not on      *)
(* their order: it ends with the missing-declaration error exactly when a  *)
(* file has no CREATE TABLE, with the missing-table error exactly when all *)
(* have one and a table is missing, and otherwise succeeds with, for each  *)
(* table, the columns, kept rows and discarded rows of the one file that   *)
(* declares it, and the artifacts written from them.                       *)
C11_OrderIndependent ==
    /\ pc = "error" =>
          /\ error = "no CREATE TABLE" <=> ~AllDeclared
          /\ error = "missing table" <=> (AllDeclared /\ ~AllTablesFound)
    /\ pc = "done" =>
          /\ AllDeclared /\ AllTablesFound
          /\ \A t \in Tables :
                LET got == parse_sql_file(FileFor(t))
                IN  /\ table_data[t].columns = got.columns
                    /\ values_ok[t] = LongEnough(t, got.values)
                    /\ SKIPPED_ROWS[t] = TooShort(t, got.values)
          /\ written = ArtifactsOf([t \in Tables |-> table_data[t].columns], values_ok)

C11_Witness ==
    /\ pc = "done"
    /\ Lower(argv[1].create) = "states"
    /\ Lower(argv[2].create) = "cities"
    /\ Lower(argv[3].create) = "countries"
    /\ Len(written) = 5

\* The k-th file declares a table outside countries, states, cities.
Unwanted(k) == ~parse_sql_file(argv[k]).raises /\ TableOfFile(k) \notin Tables

\* Only the k-th file stands between the run and success: the other files
\* declare wanted tables, no two the same.
OnlyFault(k) ==
    /\ Unwanted(k)
    /\ \A j \in (1..Len(argv)) \ {k} :
          ~parse_sql_file(argv[j]).raises /\ TableOfFile(j) \in Tables
    /\ \A i, j \in (1..Len(argv)) \ {k} : i # j => TableOfFile(i) # TableOfFile(j)

(* C12, as stated: a file that declares an unwanted table is not fatal:    *)
(* a run whose other files are sound does not end in an error.             *)
C12_UnwantedFileNotFatal ==
    (Len(argv) = NumFiles /\ \E k \in 1..NumFiles : OnlyFault(k)) => pc # "error"

(* C12, amended: the iteration on a file that declares an unwanted table   *)
(* raises nothing, stores nothing and goes on to the next file, so the     *)
(* missing-table error is raised only after every file was parsed; but a   *)
(* run with such a file never gets past that check, since only three files *)
(* are read and all three tables are required.                             *)
C12_UnwantedSkippedThenMissing ==
    [][ /\ (pc = "parse" /\ fidx < NumFiles /\ Unwanted(fidx + 1)) =>
              /\ error' = "" /\ table_data' = table_data
              /\ fidx' = fidx + 1
              /\ pc' = IF fidx' < NumFiles THEN "parse" ELSE "check"
        /\ (pc' = "error" /\ error' = "missing table") => fidx' = NumFiles
        /\ pc' \in {"validate", "schema", "mutations", "csv", "done"} =>
              \A k \in 1..NumFiles : ~Unwanted(k)
      ]_vars

C12_Witness ==
    /\ pc = "error" /\ error = "missing table"
    /\ OnlyFault(1)
    /\ fidx = NumFiles
    /\ table_data["countries"].parsed /\ table_data["states"].parsed

-----------------------------------------------------------------------------
(* Claims about running the validator again.                               *)

(* C13: validation is idempotent: whenever the three filter loops have     *)
(* run, in the first call of main or in a later one on the same rows, the  *)
(* kept rows are the long enough rows of the table and its discard log     *)
(* holds the too short rows once each, in order.                           *)
C13_ValidationIdempotent ==
    pc \in {"schema", "mutations", "csv", "done"} =>
        \A t \in Tables :
            /\ values_ok[t] = LongEnough(t, table_data[t].values)
            /\ SKIPPED_ROWS[t] = TooShort(t, table_data[t].values)

-----------------------------------------------------------------------------
(* Claims about the cursors of the two scanners.                           *)

\* The quote and escape rules on one consumed character, from the cursor c
\* before it to the cursor d after it.
ToggleRules(c, d, char) ==
    /\ char = "'" =>
          ((d.in_single_quote # c.in_single_quote)
              <=> (~c.in_double_quote /\ c.backslash_count % 2 = 0))
    /\ char = "\"" =>
          ((d.in_double_quote # c.in_double_quote)
              <=> (~c.in_single_quote /\ c.backslash_count % 2 = 0))
    /\ char = "\\" =>
          /\ d.backslash_count = c.backslash_count + 1
          /\ d.current = Append(c.current, char)
          /\ d.in_single_quote = c.in_single_quote
          /\ d.in_double_quote = c.in_double_quote
    /\ char # "\\" => d.backslash_count = 0

\* The extractor consumes a character in this step: in its outer loop, or in
\* the inner loop that follows an emitted tuple.
ExtConsumes == ext.pc \in {"scan", "skip"} /\ ext'.i = ext.i + 1

SplConsumes == spl.pc = "scan" /\ spl'.pos = spl.pos + 1

(* C14, as stated: in both scanners every consumed character follows the   *)
(* rules: a quote toggles its flag exactly when the other flag is off and  *)
(* the run of backslashes before it is even, a backslash is counted and    *)
(* appended and toggles nothing, any other character resets the run.       *)
C14_ToggleRulesEveryStep ==
    [][ /\ ExtConsumes => ToggleRules(ext, ext', ExtChar(ext))
        /\ SplConsumes => ToggleRules(spl, spl', SplChar(spl)) ]_vars

(* C14, amended: the rules hold for every character the splitter consumes  *)
(* and every character the extractor's outer loop consumes; a character    *)
(* consumed by the extractor's inner loop, after an emitted tuple and      *)
(* before the next "(", only moves the position: a quote there toggles     *)
(* nothing and a backslash there is neither counted nor appended.          *)
C14_ToggleRulesOutsideSkip ==
    [][ /\ (ExtConsumes /\ ext.pc = "scan") => ToggleRules(ext, ext', ExtChar(ext))
        /\ (ExtConsumes /\ ext.pc = "skip") => ext' = [ext EXCEPT !.i = @ + 1]
        /\ SplConsumes => ToggleRules(spl, spl', SplChar(spl)) ]_vars

\* ("")' : two double quotes toggled in the outer loop, then a single quote
\* consumed by the inner loop.
C14_Witness ==
    /\ ext.pc = "skip"
    /\ ext.values_block = << "(", "\"", "\"", ")", "'" >>
    /\ ext.i = 5
    /\ ext.results = << << "\"", "\"" >> >>
    /\ ~ext.in_single_quote

\* That character is a parenthesis outside any quoted literal.
UnquotedParen ==
    /\ ExtChar(ext) \in {"(", ")"}
    /\ ~ext.in_single_quote /\ ~ext.in_double_quote

(* C15: paren_depth goes up by one only on an unquoted "(" after an even   *)
(* run of backslashes and down by one only on such a ")"; an unquoted      *)
(* parenthesis after an odd run of backslashes leaves paren_depth as it    *)
(* is and ends no tuple.                                                   *)
C15_EscapedParenInert ==
    [][ ExtScanning =>
          /\ ext'.paren_depth = ext.paren_depth + 1 =>
                (UnquotedParen /\ ExtChar(ext) = "(" /\ ext.backslash_count % 2 = 0)
          /\ ext'.paren_depth = ext.paren_depth - 1 =>
                (UnquotedParen /\ ExtChar(ext) = ")" /\ ext.backslash_count % 2 = 0)
          /\ (UnquotedParen /\ ext.backslash_count % 2 = 1) =>
                /\ ext'.paren_depth = ext.paren_depth
                /\ ext'.results = ext.results
      ]_vars

-----------------------------------------------------------------------------
(* Claims about where a values block ends.                                 *)

\* The text of a statement after VALUES, up to its terminating semicolon,
\* which is the last character of the tail.
StatementBlock(tail) == Strip(SubSeq(tail, 1, Len(tail) - 1))

RECURSIVE StatementRows(_)
StatementRows(inserts) ==
    IF inserts = <<>> THEN <<>>
    ELSE BlockRows(StatementBlock(Head(inserts).tail)) \o StatementRows(Tail(inserts))

(* C16: once the three files are parsed, the rows of each table are the    *)
(* rows of every tuple of every INSERT statement of its file, each         *)
(* statement read up to its terminating semicolon, a semicolon inside a    *)
(* quoted literal included in its tuple.                                   *)
C16_BlockEndsAtTerminator ==
    fidx = NumFiles =>
        \A k \in 1..Len(Files) :
            (LastFor(k) /\ Lower(Files[k].create) \in Tables) =>
                table_data[Lower(Files[k].create)].values =
                    StatementRows(SelectSeq(Files[k].inserts,
                        LAMBDA ins : Lower(ins.table) = Lower(Files[k].create)))

-----------------------------------------------------------------------------
(* Claims about blocks whose parentheses do not match.                     *)

(* C18: paren_depth is never negative, in any state of the extractor.      *)
C18_DepthNeverNegative == ext.pc # "idle" => ext.paren_depth >= 0

RECURSIVE ClampedDepth(_, _)
\* The nesting depth after the first k characters of text when a ")" met at
\* depth 0 is a stray character that changes nothing.
ClampedDepth(text, k) ==
    IF k = 0 THEN 0
    ELSE LET d == ClampedDepth(text, k - 1)
         IN  IF text[k] = "(" THEN d + 1
             ELSE IF text[k] = ")" /\ d > 0 THEN d - 1
             ELSE d

\* Positions of the ")" that complete a top-level tuple, and of its "(".
CompletedEnds(text) ==
    {k \in 1..Len(text) : text[k] = ")" /\ ClampedDepth(text, k - 1) = 1}

CompletedStart(text, k) ==
    CHOOSE j \in 1..k :
        /\ text[j] = "(" /\ ClampedDepth(text, j - 1) = 0
        /\ \A m \in (j + 1)..k : ~(text[m] = "(" /\ ClampedDepth(text, m - 1) = 0)

\* More "(" than ")" in the whole block.
MoreOpens(text) == RefDepth(text, Len(text)) > 0

(* C17: on a block with more opening than closing parentheses, all of them *)
(* unquoted, the extractor returns one tuple for every top-level tuple     *)
(* that was closed, in source order and with the content the extractor     *)
(* gives a tuple of a sound block, and nothing for the content after the   *)
(* last of them.                                                           *)
C17_CompletedTuplesReturned ==
    (ExtDone /\ MoreOpens(ext.values_block) /\ ParensUnquoted(ext.values_block))
        => LET block == ext.values_block
               ends  == Ascending(CompletedEnds(block))
           IN  /\ Len(ext.results) = Len(ends)
               /\ \A n \in 1..Len(ends) :
                    ext.results[n] =
                        IF n = 1 /\ Head(block) # "("
                        THEN Strip(SubSeq(block, 1, ends[1]))
                        ELSE Strip(SubSeq(block, CompletedStart(block, ends[n]) + 1,
                                          ends[n] - 1))

-----------------------------------------------------------------------------
(* Claims about the states the scanners pass through.                      *)

(* C19: in no state of either scanner are in_single_quote and              *)
(* in_double_quote both true, and the step of the extractor that emits a   *)
(* tuple leaves paren_depth 0, both quote flags false and the backslash    *)
(* run counter 0.                                                          *)
C19_FlagsExclusiveResetAtEmit ==
    /\ [](ext.pc # "idle" => ~(ext.in_single_quote /\ ext.in_double_quote))
    /\ [](spl.pc # "idle" => ~(spl.in_single_quote /\ spl.in_double_quote))
    /\ [][ (ext.pc # "idle" /\ ext'.results # ext.results) =>
              /\ ext'.paren_depth = 0
              /\ ~ext'.in_single_quote /\ ~ext'.in_double_quote
              /\ ext'.backslash_count = 0 ]_vars

\* ('")') : a double quote inside a single-quoted literal, then the tuple out.
C19_Witness ==
    /\ ext.pc = "skip"
    /\ ext.values_block = << "(", "'", "\"", "'", ")" >>
    /\ ext.results = << << "'", "\"", "'" >> >>
    /\ ext.paren_depth = 0

-----------------------------------------------------------------------------
(* Claims about termination.                                               *)

\* What is left to do: the characters not yet consumed, and one more step
\* to leave the inner loop or to return.
ExtMeasure(c) ==
    2 * (ExtLength(c) - c.i)
        + (CASE c.pc = "skip" -> 2 [] c.pc = "scan" -> 1 [] OTHER -> 0)

(* C20: the extractor terminates on every block.  Every step that consumes *)
(* a character moves the position forward by exactly one, in the outer     *)
(* loop and in the inner one; the only steps that leave the position       *)
(* where it is are the exit of the inner loop (at a "(" or at the end of   *)
(* the block) and the return at the end of the block; what is left to do   *)
(* shrinks with every step; the function returns, and when it does the     *)
(* position is the length of the block.                                    *)
C20_Terminates ==
    /\ [][ ext.pc \in {"scan", "skip"} =>
              /\ ext'.values_block = ext.values_block
              /\ ExtMeasure(ext') < ExtMeasure(ext)
              /\ \/ ext'.i = ext.i + 1 /\ ext.i < ExtLength(ext)
                 \/ /\ ext'.i = ext.i
                    /\ ext.pc = "skip" /\ ext'.pc = "scan"
                    /\ (ext.i = ExtLength(ext) \/ ExtChar(ext) = "(")
                 \/ /\ ext'.i = ext.i
                    /\ ext.pc = "scan" /\ ext'.pc = "done"
                    /\ ext.i = ExtLength(ext) ]_vars
    /\ [](ExtDone => ext.i = ExtLength(ext))
    /\ <>ExtDone

\* (a),a : a tuple, a separator and a stray character skipped, the end reached.
C20_Witness ==
    /\ ExtDone
    /\ ext.values_block = << "(", "a", ")", ",", "a" >>
    /\ ext.i = 5
    /\ ext.results = << << "a" >> >>

====
